---- MODULE Spec2Model ----
(***************************************************************************)
(* CervixAI (oncophi) clinical workflow: screenings, diagnoses, samples,   *)
(* AI results, clinician annotations and the audit log, as the FastAPI     *)
(* routes and the service classes read and write them.                     *)
(*                                                                         *)
(* The database is the shared state.  A handler that queries a row, works  *)
(* on the loaded object and commits later is two steps (its query and its  *)
(* commit), so that other requests can commit in between; the ORM flushes  *)
(* only the attributes the handler assigned.  A handler's audit write is   *)
(* a second transaction after the state commit and may fail on its own.    *)
(***************************************************************************)
EXTENDS Integers, Sequences, FiniteSets, TLC

\* ---------------------------------------------------------------- bounds
\* Requests that may arrive in one behaviour (each arrival advances utcnow()).
MaxClock == 3

\* The confidence of an inference is counted in units of 1/Units.
Units == 5

\* ------------------------------------------------------------- constants
\* None in a string column, None in a DateTime column, and "no such row".
NULL == "null"
NoTime == -1
NoRow == [none |-> TRUE]

Workers == {"w1", "w2"}
Patients == {"p1", "p2"}
Screenings == {"s1", "s2"}
Samples == {"m1", "m2"}

\* The authenticated user the routes get from Depends(get_current_user) /
\* require_clinician / require_pathologist.
current_user == "clinician"

\* ScreeningStatus (models/screening.py)
PENDING == "pending"
AI_ANALYZED == "ai_analyzed"
UNDER_REVIEW == "under_review"
COMPLETED == "completed"
CANCELLED == "cancelled"
ScreeningStatus == {PENDING, AI_ANALYZED, UNDER_REVIEW, COMPLETED, CANCELLED}

\* A sample of DiagnosisCategory / DIAGNOSIS_CATEGORIES labels the scorer returns.
Predictions == {"nilm", "hsil"}

\* AnnotationUpdate's fields (schemas/annotation.py)
AnnotationUpdate ==
    {"agrees_with_ai", "clinician_diagnosis", "notes", "override_flags",
     "follow_up_recommended", "follow_up_notes", "follow_up_date"}

\* Field values: what create stores and what an edit stores.
V0 == "v0"
V1 == "v1"

VARIABLES
    patients,          \* patient id -> row
    screenings,        \* screening id -> row, or NoRow when no such row
    screening_images,  \* screening ids that have at least one ScreeningImage row
    diagnoses,         \* screening id -> its Diagnosis row (screening_id is unique), or NoRow
    samples,           \* sample id -> row, or NoRow
    ai_results,        \* sequence of AIResult rows (index = id)
    annotations,       \* sequence of Annotation rows (index = id)
    audit_logs,        \* sequence of AuditLog rows, in insertion order
    clock,             \* datetime.utcnow()
    req,               \* worker -> the request it is in the middle of
    response           \* the last response a handler returned

vars == <<patients, screenings, screening_images, diagnoses, samples, ai_results,
          annotations, audit_logs, clock, req, response>>

db == <<patients, screenings, screening_images, diagnoses, samples, ai_results,
        annotations>>

\* ------------------------------------------------------------------ rows
Idle == [op |-> "idle"]

Screening(pid) == [patient_id |-> pid, status |-> PENDING]

Diagnosis(sid) ==
    [screening_id |-> sid, ai_prediction |-> NULL, ai_analysis_date |-> NoTime,
     reviewer_id |-> NULL, clinician_diagnosis |-> NULL, review_date |-> NoTime,
     final_diagnosis |-> NULL, finalized_at |-> NoTime]

\* References a result id can hold: the Diagnosis of a screening (what the
\* screening branch of run_analysis returns as the result), an AIResult row,
\* or an id no row has.
DiagnosisRef(sid) == [kind |-> "diagnosis", screening_id |-> sid, index |-> 0]
AIResultRef(i) == [kind |-> "ai_result", screening_id |-> NULL, index |-> i]
MissingRef == [kind |-> "missing", screening_id |-> NULL, index |-> 0]

Annotation(result_id, clinician_id) ==
    [result_id |-> result_id, clinician_id |-> clinician_id,
     fields |-> [f \in AnnotationUpdate |-> V0],
     signed_off |-> FALSE, signed_off_at |-> NoTime]

AuditLog(action, user, resource_type, resource_id, severity) ==
    [action |-> action, user_id |-> user, resource_type |-> resource_type,
     resource_id |-> resource_id, severity |-> severity, timestamp |-> clock']

\* What a handler returned: the route or method, the id the request named, the
\* HTTP status (200, 201, 400, 404; 500 for an exception that escapes), the body
\* (the row returned, when the handler returns), and the time the request it
\* answers arrived.
Response(op, id, at, code, body) ==
    [op |-> op, id |-> id, at |-> at, code |-> code,
     body |-> IF code >= 400 THEN NoRow ELSE body]

\* ------------------------------------------------------------------ Init
AIResult(sample_id, prediction) ==
    [sample_id |-> sample_id, primary_prediction |-> prediction,
     model_version |-> "1.0.0", model_name |-> "CervixAI-ResNet50"]

Seeded(action, resource_type, resource_id) ==
    [action |-> action, user_id |-> current_user, resource_type |-> resource_type,
     resource_id |-> resource_id, severity |-> "info", timestamp |-> 0]

\* The database after intake: one consenting and one non-consenting patient, a
\* screening of the first with an image uploaded, and a sample of the first
\* with its image and one AI result; each of these recorded in the audit log.
Init ==
    /\ patients = [p \in Patients |-> [consent_given |-> (p = "p1"), is_active |-> TRUE]]
    /\ screenings = [s \in Screenings |-> IF s = "s1" THEN Screening("p1") ELSE NoRow]
    /\ screening_images = {"s1"}
    /\ diagnoses = [s \in Screenings |-> NoRow]
    /\ samples = [m \in Samples |->
                    IF m = "m1" THEN [patient_id |-> "p1", status |-> "analyzed",
                                      image_path |-> "m1.png"]
                    ELSE NoRow]
    /\ ai_results = << AIResult("m1", "nilm") >>
    /\ annotations = <<>>
    /\ audit_logs = << Seeded("screening.create", "screening", "s1"),
                       Seeded("image.upload", "image", "s1"),
                       Seeded("sample.create", "sample", "m1"),
                       Seeded("sample.upload_image", "sample", "m1"),
                       Seeded("ai_result.create", "ai_result", 1) >>
    /\ clock = 0
    /\ req = [w \in Workers |-> Idle]
    /\ response = Response("none", NULL, 0, 0, NoRow)

\* ------------------------------------------------------------ audit log
\* db.add(log); db.commit(): the row is appended when the commit succeeds
\* (committed) and nothing is written when it raises.
AuditLog_log_action(entry, committed) ==
    IF committed THEN Append(audit_logs, entry) ELSE audit_logs

\* The services' _log_action: an entry is written only when a user is attached.
AnnotationService_log_action(user, action, resource_id, severity, committed) ==
    IF user # NULL
    THEN AuditLog_log_action(AuditLog(action, user, "annotation", resource_id, severity),
                             committed)
    ELSE audit_logs

AIResultService_log_action(user, action, resource_id, committed) ==
    IF user # NULL
    THEN AuditLog_log_action(AuditLog(action, user, "ai_result", resource_id, "info"),
                             committed)
    ELSE audit_logs

\* The status a handler ends with after its audit write: the exception of a
\* failed audit commit escapes the handler.
Logged(user, committed, code) == IF user # NULL /\ ~committed THEN 500 ELSE code

\* A request arrives: utcnow() moves on.
Arrive == clock < MaxClock /\ clock' = clock + 1

\* --------------------------------------------------- screenings (routes)
\* A variant that asks for no consent; C24 must not hold of it.
consent_never_required(patient) == FALSE

\* `if not patient.consent_given`
consent_required(patient) == ~patient.consent_given

create_screening(pid) ==
    /\ Arrive
    /\ IF patients[pid] = NoRow
       THEN /\ response' = Response("create_screening", pid, clock', 404, NoRow)
            /\ UNCHANGED <<screenings, audit_logs>>
       ELSE IF consent_required(patients[pid])
       THEN /\ response' = Response("create_screening", pid, clock', 400, NoRow)
            /\ UNCHANGED <<screenings, audit_logs>>
       ELSE \E sid \in Screenings, committed \in BOOLEAN :
            /\ screenings[sid] = NoRow
            /\ screenings' = [screenings EXCEPT ![sid] = Screening(pid)]
            /\ audit_logs' = AuditLog_log_action(
                   AuditLog("screening.create", current_user, "screening", sid, "info"),
                   committed)
            /\ response' = Response("create_screening", pid, clock',
                                    Logged(current_user, committed, 201), screenings'[sid])
    /\ UNCHANGED <<patients, screening_images, diagnoses, samples, ai_results,
                   annotations, req>>

\* ScreeningUpdate: status is NULL when the request leaves it unset
\* (model_dump(exclude_unset=True)); any status is stored as given.
update_screening(sid, status) ==
    /\ Arrive
    /\ IF screenings[sid] = NoRow
       THEN /\ response' = Response("update_screening", sid, clock', 404, NoRow)
            /\ UNCHANGED <<screenings, audit_logs>>
       ELSE \E committed \in BOOLEAN :
            /\ screenings' = [screenings EXCEPT ![sid].status =
                                  IF status = NULL THEN @ ELSE status]
            /\ audit_logs' = AuditLog_log_action(
                   AuditLog("screening.update", current_user, "screening", sid, "info"),
                   committed)
            /\ response' = Response("update_screening", sid, clock',
                                    Logged(current_user, committed, 200), screenings'[sid])
    /\ UNCHANGED <<patients, screening_images, diagnoses, samples, ai_results,
                   annotations, req>>

upload_image(sid) ==
    /\ Arrive
    /\ IF screenings[sid] = NoRow
       THEN /\ response' = Response("upload_image", sid, clock', 404, NoRow)
            /\ UNCHANGED <<screening_images, audit_logs>>
       ELSE \E committed \in BOOLEAN :
            /\ screening_images' = screening_images \cup {sid}
            /\ audit_logs' = AuditLog_log_action(
                   AuditLog("image.upload", current_user, "image", sid, "info"), committed)
            /\ response' = Response("upload_image", sid, clock',
                                    Logged(current_user, committed, 200), NoRow)
    /\ UNCHANGED <<patients, screenings, diagnoses, samples, ai_results,
                   annotations, req>>

\* ------------------------------------------------------ samples (routes)
create_sample(pid) ==
    /\ Arrive
    /\ IF patients[pid] = NoRow
       THEN /\ response' = Response("create_sample", pid, clock', 404, NoRow)
            /\ UNCHANGED <<samples, audit_logs>>
       ELSE \E mid \in Samples, committed \in BOOLEAN :
            /\ samples[mid] = NoRow
            /\ samples' = [samples EXCEPT ![mid] =
                              [patient_id |-> pid, status |-> "pending",
                               image_path |-> NULL]]
            /\ audit_logs' = AuditLog_log_action(
                   AuditLog("sample.create", current_user, "sample", mid, "info"), committed)
            /\ response' = Response("create_sample", pid, clock',
                                    Logged(current_user, committed, 201), samples'[mid])
    /\ UNCHANGED <<patients, screenings, screening_images, diagnoses, ai_results,
                   annotations, req>>

\* ---------------------------------------------- diagnoses (legacy routes)
\* A variant whose analysis also finalizes the diagnosis; C2 must not hold of it.
ai_analysis_finalizing(diagnosis, prediction, at) ==
    [diagnosis EXCEPT !.ai_prediction = prediction, !.ai_analysis_date = at,
                      !.final_diagnosis = prediction, !.finalized_at = at]

\* The assignments of the mock analysis to the Diagnosis: the AI fields only.
ai_analysis(diagnosis, prediction, at) ==
    [diagnosis EXCEPT !.ai_prediction = prediction, !.ai_analysis_date = at]

\* POST /diagnoses/analyze: the queries and checks, then the mock analysis on
\* the loaded objects.
\* A variant that takes no Diagnosis as analysed; C26 must not hold of it.
never_analyzed(existing) == FALSE

\* `if existing and existing.ai_prediction`
already_analyzed(existing) == existing # NoRow /\ existing.ai_prediction # NULL

run_ai_analysis_begin(w, sid, prediction) ==
    /\ req[w] = Idle
    /\ Arrive
    /\ IF screenings[sid] = NoRow
       THEN /\ response' = Response("run_ai_analysis", sid, clock', 404, NoRow)
            /\ UNCHANGED req
       ELSE IF sid \notin screening_images
       THEN /\ response' = Response("run_ai_analysis", sid, clock', 400, NoRow)
            /\ UNCHANGED req
       ELSE IF already_analyzed(diagnoses[sid])
       THEN /\ response' = Response("run_ai_analysis", sid, clock', 400, NoRow)
            /\ UNCHANGED req
       ELSE /\ req' = [req EXCEPT ![w] =
                         [op |-> "run_ai_analysis", screening_id |-> sid,
                          screening |-> screenings[sid], existing |-> diagnoses[sid],
                          prediction |-> prediction, at |-> clock', user |-> current_user]]
            /\ UNCHANGED response
    /\ UNCHANGED <<db, audit_logs>>

\* Its db.commit() (the INSERT fails on the unique screening_id when another
\* request has inserted a Diagnosis since the query; an UPDATE fails when its
\* row is gone), then the audit write.
run_ai_analysis_commit(w) ==
    /\ req[w].op = "run_ai_analysis"
    /\ UNCHANGED clock
    /\ LET r == req[w]
           sid == r.screening_id
       IN  IF \/ r.existing = NoRow /\ diagnoses[sid] # NoRow
              \/ r.existing # NoRow /\ diagnoses[sid] = NoRow
              \/ r.screening.status # AI_ANALYZED /\ screenings[sid] = NoRow
           THEN /\ response' = Response("run_ai_analysis", sid, r.at, 500, NoRow)
                /\ UNCHANGED <<diagnoses, screenings, audit_logs>>
           ELSE \E committed \in BOOLEAN :
                /\ diagnoses' = [diagnoses EXCEPT ![sid] =
                      ai_analysis(IF r.existing = NoRow THEN Diagnosis(sid) ELSE @,
                                  r.prediction, r.at)]
                /\ screenings' = [screenings EXCEPT ![sid] =
                      IF r.screening.status = AI_ANALYZED THEN @
                      ELSE [@ EXCEPT !.status = AI_ANALYZED]]
                /\ audit_logs' = AuditLog_log_action(
                      AuditLog("diagnosis.ai_analysis", r.user, "diagnosis", sid, "info"),
                      committed)
                /\ response' = Response("run_ai_analysis", sid, r.at,
                                        Logged(r.user, committed, 200), diagnoses'[sid])
    /\ req' = [req EXCEPT ![w] = Idle]
    /\ UNCHANGED <<patients, screening_images, samples, ai_results, annotations>>

\* POST /diagnoses/review: the queries and checks, the review and the final
\* diagnosis set on the loaded Diagnosis.
submit_clinician_review_begin(w, sid, clinician_diagnosis) ==
    /\ req[w] = Idle
    /\ Arrive
    /\ IF diagnoses[sid] = NoRow
       THEN /\ response' = Response("submit_clinician_review", sid, clock', 404, NoRow)
            /\ UNCHANGED req
       ELSE IF diagnoses[sid].review_date # NoTime
       THEN /\ response' = Response("submit_clinician_review", sid, clock', 400, NoRow)
            /\ UNCHANGED req
       ELSE /\ req' = [req EXCEPT ![w] =
                         [op |-> "submit_clinician_review", diagnosis_id |-> sid,
                          screening |-> screenings[sid],
                          clinician_diagnosis |-> clinician_diagnosis,
                          at |-> clock', user |-> current_user]]
            /\ UNCHANGED response
    /\ UNCHANGED <<db, audit_logs>>

submit_clinician_review_commit(w) ==
    /\ req[w].op = "submit_clinician_review"
    /\ UNCHANGED clock
    /\ LET r == req[w]
           sid == r.diagnosis_id
       IN  IF \/ diagnoses[sid] = NoRow
              \/ (r.screening # NoRow /\ r.screening.status # COMPLETED
                    /\ screenings[sid] = NoRow)
           THEN /\ response' = Response("submit_clinician_review", sid, r.at, 500, NoRow)
                /\ UNCHANGED <<diagnoses, screenings, audit_logs>>
           ELSE
           \E committed \in BOOLEAN :
           /\ diagnoses' = [diagnoses EXCEPT ![sid] =
                 [@ EXCEPT !.reviewer_id = r.user,
                           !.clinician_diagnosis = r.clinician_diagnosis,
                           !.review_date = r.at,
                           !.final_diagnosis = r.clinician_diagnosis,
                           !.finalized_at = r.at]]
           /\ screenings' = [screenings EXCEPT ![sid] =
                 IF r.screening = NoRow \/ r.screening.status = COMPLETED
                 THEN @ ELSE [@ EXCEPT !.status = COMPLETED]]
           /\ audit_logs' = AuditLog_log_action(
                 AuditLog("diagnosis.clinician_review", r.user, "diagnosis", sid, "info"),
                 committed)
           /\ response' = Response("submit_clinician_review", sid, r.at,
                                   Logged(r.user, committed, 200), diagnoses'[sid])
    /\ req' = [req EXCEPT ![w] = Idle]
    /\ UNCHANGED <<patients, screening_images, samples, ai_results, annotations>>

\* --------------------------------------------------- AIResultService
\* run_analysis(screening_id, sample_id): the query of the branch taken and the
\* simulated inference; None (a 404 of the route) when the row is missing or
\* neither id is given.  user is the service's current_user, NULL when none.
AIResultService_run_analysis_begin(w, user, screening_id, sample_id, prediction) ==
    /\ req[w] = Idle
    /\ Arrive
    /\ IF screening_id # NULL
       THEN IF screenings[screening_id] = NoRow
            THEN /\ response' = Response("run_analysis", screening_id, clock', 404, NoRow)
                 /\ UNCHANGED req
            ELSE /\ req' = [req EXCEPT ![w] =
                              [op |-> "run_analysis", branch |-> "screening",
                               id |-> screening_id, loaded |-> screenings[screening_id],
                               prediction |-> prediction, user |-> user, at |-> clock']]
                 /\ UNCHANGED response
       ELSE IF sample_id # NULL
       THEN IF samples[sample_id] = NoRow
            THEN /\ response' = Response("run_analysis", sample_id, clock', 404, NoRow)
                 /\ UNCHANGED req
            ELSE /\ req' = [req EXCEPT ![w] =
                              [op |-> "run_analysis", branch |-> "sample",
                               id |-> sample_id, loaded |-> samples[sample_id],
                               prediction |-> prediction, user |-> user, at |-> clock']]
                 /\ UNCHANGED response
       ELSE /\ response' = Response("run_analysis", NULL, clock', 404, NoRow)
            /\ UNCHANGED req
    /\ UNCHANGED <<db, audit_logs>>

\* Its db.commit(): a new Diagnosis (screening branch; the INSERT fails on the
\* unique screening_id when the screening already has one) or a new AIResult
\* (sample branch), and the status of the owner; then _log_action.
AIResultService_run_analysis_commit(w) ==
    /\ req[w].op = "run_analysis"
    /\ UNCHANGED clock
    /\ LET r == req[w] IN
       IF r.branch = "screening"
       THEN /\ IF \/ diagnoses[r.id] # NoRow
                  \/ r.loaded.status # AI_ANALYZED /\ screenings[r.id] = NoRow
               THEN /\ response' = Response("run_analysis", r.id, r.at, 500, NoRow)
                    /\ UNCHANGED <<diagnoses, screenings, audit_logs>>
               ELSE \E committed \in BOOLEAN :
                    /\ diagnoses' = [diagnoses EXCEPT ![r.id] =
                          [Diagnosis(r.id) EXCEPT !.ai_prediction = r.prediction]]
                    /\ screenings' = [screenings EXCEPT ![r.id] =
                          IF r.loaded.status = AI_ANALYZED THEN @
                          ELSE [@ EXCEPT !.status = AI_ANALYZED]]
                    /\ audit_logs' = AIResultService_log_action(
                          r.user, "diagnosis.ai_analyze", r.id, committed)
                    /\ response' = Response("run_analysis", r.id, r.at,
                                            Logged(r.user, committed, 200), diagnoses'[r.id])
            /\ UNCHANGED <<samples, ai_results>>
       ELSE /\ IF r.loaded.status # "analyzed" /\ samples[r.id] = NoRow
               THEN /\ response' = Response("run_analysis", r.id, r.at, 500, NoRow)
                    /\ UNCHANGED <<ai_results, samples, audit_logs>>
               ELSE \E committed \in BOOLEAN :
                 /\ ai_results' = Append(ai_results, AIResult(r.id, r.prediction))
                 /\ samples' = [samples EXCEPT ![r.id] =
                       IF r.loaded.status = "analyzed" THEN @
                       ELSE [@ EXCEPT !.status = "analyzed"]]
                 /\ audit_logs' = AIResultService_log_action(
                       r.user, "ai_result.create", Len(ai_results'), committed)
                 /\ response' = Response("run_analysis", r.id, r.at,
                                         Logged(r.user, committed, 200),
                                         ai_results'[Len(ai_results')])
            /\ UNCHANGED <<diagnoses, screenings>>
    /\ req' = [req EXCEPT ![w] = Idle]
    /\ UNCHANGED <<patients, screening_images, annotations>>

\* --------------------------------------------------- AnnotationService
\* Result ids a request can name: of the rows there are, and one of no row.
\* (The default SQLite build does not enforce the foreign key on result_id.)
ResultIds ==
    {DiagnosisRef(s) : s \in {x \in Screenings : diagnoses[x] # NoRow}}
        \cup {AIResultRef(i) : i \in 1..Len(ai_results)} \cup {MissingRef}

\* Annotation ids a request can name: of the rows inserted so far, and one more.
AnnotationIds == 1..(Len(annotations) + 1)

Found(id) == id \in 1..Len(annotations) /\ annotations[id] # NoRow

\* create_annotation: the INSERT and its commit (clinician_id is NOT NULL, so
\* the commit raises when the service has no user), then _log_action.
create_annotation(user, result_id) ==
    /\ Arrive
    /\ IF user = NULL
       THEN /\ response' = Response("create_annotation", NULL, clock', 500, NoRow)
            /\ UNCHANGED <<annotations, audit_logs>>
       ELSE \E committed \in BOOLEAN :
            /\ annotations' = Append(annotations, Annotation(result_id, user))
            /\ audit_logs' = AnnotationService_log_action(
                  user, "annotation.create", Len(annotations'), "info", committed)
            /\ response' = Response("create_annotation", NULL, clock',
                                    Logged(user, committed, 201),
                                    annotations'[Len(annotations')])
    /\ UNCHANGED <<patients, screenings, screening_images, diagnoses, samples,
                   ai_results, req>>

\* A variant that completes every Screening; C27 must not hold of it.
review_diagnosis_of_every_screening(user, sid, clinician_diagnosis) ==
    /\ Arrive
    /\ IF diagnoses[sid] = NoRow
       THEN /\ response' = Response("review_diagnosis", sid, clock', 404, NoRow)
            /\ UNCHANGED <<diagnoses, screenings, audit_logs>>
       ELSE \E committed \in BOOLEAN :
            /\ diagnoses' = [diagnoses EXCEPT
                  ![sid].clinician_diagnosis = clinician_diagnosis]
            /\ screenings' = [s \in Screenings |->
                  IF screenings[s] = NoRow THEN NoRow
                  ELSE [screenings[s] EXCEPT !.status = COMPLETED]]
            /\ audit_logs' = AnnotationService_log_action(
                  user, "diagnosis.review", sid, "critical", committed)
            /\ response' = Response("review_diagnosis", sid, clock',
                                    Logged(user, committed, 200), diagnoses'[sid])
    /\ UNCHANGED <<patients, screening_images, samples, ai_results, annotations, req>>

\* A variant that logs the review of a Diagnosis it did not find; C28 must not
\* hold of it.
review_diagnosis_logged_when_missing(user, sid, clinician_diagnosis) ==
    /\ Arrive
    /\ IF diagnoses[sid] = NoRow
       THEN /\ response' = Response("review_diagnosis", sid, clock', 404, NoRow)
            /\ audit_logs' = AnnotationService_log_action(
                  user, "diagnosis.review", sid, "critical", TRUE)
            /\ UNCHANGED <<diagnoses, screenings>>
       ELSE \E committed \in BOOLEAN :
            /\ diagnoses' = [diagnoses EXCEPT
                  ![sid].clinician_diagnosis = clinician_diagnosis]
            /\ screenings' = [screenings EXCEPT ![sid] =
                  IF @ = NoRow THEN @ ELSE [@ EXCEPT !.status = COMPLETED]]
            /\ audit_logs' = AnnotationService_log_action(
                  user, "diagnosis.review", sid, "critical", committed)
            /\ response' = Response("review_diagnosis", sid, clock',
                                    Logged(user, committed, 200), diagnoses'[sid])
    /\ UNCHANGED <<patients, screening_images, samples, ai_results, annotations, req>>

\* review_diagnosis (legacy flow).  Of its assignments only clinician_diagnosis
\* (with the notes and follow-up fields) names a column of Diagnosis;
\* reviewed_by_id, reviewed_at, agrees_with_ai and status do not and are not stored.
review_diagnosis(user, sid, clinician_diagnosis) ==
    /\ Arrive
    /\ IF diagnoses[sid] = NoRow
       THEN /\ response' = Response("review_diagnosis", sid, clock', 404, NoRow)
            /\ UNCHANGED <<diagnoses, screenings, audit_logs>>
       ELSE \E committed \in BOOLEAN :
            /\ diagnoses' = [diagnoses EXCEPT
                  ![sid].clinician_diagnosis = clinician_diagnosis]
            /\ screenings' = [screenings EXCEPT ![sid] =
                  IF @ = NoRow THEN @ ELSE [@ EXCEPT !.status = COMPLETED]]
            /\ audit_logs' = AnnotationService_log_action(
                  user, "diagnosis.review", sid, "critical", committed)
            /\ response' = Response("review_diagnosis", sid, clock',
                                    Logged(user, committed, 200), diagnoses'[sid])
    /\ UNCHANGED <<patients, screening_images, samples, ai_results, annotations, req>>

\* A variant that signs whatever it loaded; C5 and C6 must not hold of it.
never_signed_off(annotation) == FALSE

\* The service's test of the loaded row before it signs.
already_signed_off(annotation) == annotation.signed_off

\* sign_off_annotation: the query; None (the route's 404) when there is no
\* such row, the row as it is when it is signed off already, else
\* Annotation.sign_off() on the loaded object.
sign_off_annotation_begin(w, user, id) ==
    /\ req[w] = Idle
    /\ Arrive
    /\ IF ~Found(id)
       THEN /\ response' = Response("sign_off_annotation", id, clock', 404, NoRow)
            /\ UNCHANGED req
       ELSE IF already_signed_off(annotations[id])
       THEN /\ response' = Response("sign_off_annotation", id, clock', 200, annotations[id])
            /\ UNCHANGED req
       ELSE /\ req' = [req EXCEPT ![w] =
                         [op |-> "sign_off_annotation", id |-> id, user |-> user,
                          loaded |-> annotations[id], at |-> clock']]
            /\ UNCHANGED response
    /\ UNCHANGED <<db, audit_logs>>

\* A variant that sets the flag and leaves the time; C29 must not hold of it.
Annotation_sign_off_without_time(annotation, at) ==
    [annotation EXCEPT !.signed_off = TRUE]

\* Annotation.sign_off
Annotation_sign_off(annotation, at) ==
    [annotation EXCEPT !.signed_off = TRUE, !.signed_off_at = at]

\* Its db.commit() and refresh, then _log_action("annotation.sign_off", critical).
sign_off_annotation_commit(w) ==
    /\ req[w].op = "sign_off_annotation"
    /\ UNCHANGED clock
    /\ LET r == req[w] IN
       IF ~Found(r.id)
       THEN /\ response' = Response("sign_off_annotation", r.id, r.at, 500, NoRow)
            /\ UNCHANGED <<annotations, audit_logs>>
       ELSE \E committed \in BOOLEAN :
            /\ annotations' = [annotations EXCEPT ![r.id] = Annotation_sign_off(@, r.at)]
            /\ audit_logs' = AnnotationService_log_action(
                  r.user, "annotation.sign_off", r.id, "critical", committed)
            /\ response' = Response("sign_off_annotation", r.id, r.at,
                                    Logged(r.user, committed, 200), annotations'[r.id])
    /\ req' = [req EXCEPT ![w] = Idle]
    /\ UNCHANGED <<patients, screenings, screening_images, diagnoses, samples, ai_results>>

\* ---------------------------------------------------- annotations (route)
\* A variant that updates whatever it loaded; C7 must not hold of it.
can_always_update(annotation) == FALSE

\* The route's test of the loaded row before it sets the fields.
cannot_update(annotation) == annotation.signed_off

\* PATCH /annotations/{id}: the query and the signed_off check; the request
\* sets one field (model_dump(exclude_unset=True)) on the loaded object.
update_annotation_begin(w, id, field) ==
    /\ req[w] = Idle
    /\ Arrive
    /\ IF ~Found(id)
       THEN /\ response' = Response("update_annotation", id, clock', 404, NoRow)
            /\ UNCHANGED req
       ELSE IF cannot_update(annotations[id])
       THEN /\ response' = Response("update_annotation", id, clock', 400, NoRow)
            /\ UNCHANGED req
       ELSE /\ req' = [req EXCEPT ![w] =
                         [op |-> "update_annotation", id |-> id, field |-> field,
                          value |-> V1, loaded |-> annotations[id], at |-> clock']]
            /\ UNCHANGED response
    /\ UNCHANGED <<db, audit_logs>>

\* Its db.commit() and refresh: the UPDATE writes the assigned field when the
\* assignment changed the loaded value.  No audit entry is written.
update_annotation_commit(w) ==
    /\ req[w].op = "update_annotation"
    /\ UNCHANGED clock
    /\ LET r == req[w] IN
       IF ~Found(r.id)
       THEN /\ response' = Response("update_annotation", r.id, r.at, 500, NoRow)
            /\ UNCHANGED annotations
       ELSE /\ annotations' = [annotations EXCEPT ![r.id].fields[r.field] =
                  IF r.loaded.fields[r.field] = r.value THEN @ ELSE r.value]
            /\ response' = Response("update_annotation", r.id, r.at, 200, annotations'[r.id])
    /\ req' = [req EXCEPT ![w] = Idle]
    /\ UNCHANGED <<patients, screenings, screening_images, diagnoses, samples,
                   ai_results, audit_logs>>

\* ----------------------------------------------------------- deletion
\* cascade="all, delete-orphan" from Sample to its AIResults and from an
\* AIResult to its Annotations: the AI results of these samples, and the table
\* of annotations without the annotations of those results.
cascade_ai_results(mids) ==
    {i \in DOMAIN ai_results : ai_results[i] # NoRow /\ ai_results[i].sample_id \in mids}

cascade_annotations(mids) ==
    [a \in DOMAIN annotations |->
        IF /\ annotations[a] # NoRow
           /\ annotations[a].result_id.kind = "ai_result"
           /\ annotations[a].result_id.index \in cascade_ai_results(mids)
        THEN NoRow ELSE annotations[a]]

\* DELETE /samples/{id}: db.delete(sample) and its commit, then the audit entry.
delete_sample(mid) ==
    /\ Arrive
    /\ IF samples[mid] = NoRow
       THEN /\ response' = Response("delete_sample", mid, clock', 404, NoRow)
            /\ UNCHANGED <<samples, ai_results, annotations, audit_logs>>
       ELSE \E committed \in BOOLEAN :
            /\ samples' = [samples EXCEPT ![mid] = NoRow]
            /\ ai_results' = [i \in DOMAIN ai_results |->
                                 IF i \in cascade_ai_results({mid}) THEN NoRow
                                 ELSE ai_results[i]]
            /\ annotations' = cascade_annotations({mid})
            /\ audit_logs' = AuditLog_log_action(
                   AuditLog("sample.delete", current_user, "sample", mid, "info"), committed)
            /\ response' = Response("delete_sample", mid, clock',
                                    Logged(current_user, committed, 200), NoRow)
    /\ UNCHANGED <<patients, screenings, screening_images, diagnoses, req>>

\* DELETE /patients/{id}: the audit entry and db.delete(patient) in one commit.
\* The delete cascades to the patient's screenings and samples; a screening
\* with an image or a diagnosis cannot go (their screening_id is NOT NULL and
\* they are not in the cascade), and then the commit raises and nothing is written.
delete_patient(pid) ==
    /\ Arrive
    /\ IF patients[pid] = NoRow
       THEN /\ response' = Response("delete_patient", pid, clock', 404, NoRow)
            /\ UNCHANGED <<db, audit_logs>>
       ELSE LET cases == {s \in Screenings :
                            screenings[s] # NoRow /\ screenings[s].patient_id = pid}
                mids == {m \in Samples :
                            samples[m] # NoRow /\ samples[m].patient_id = pid}
            IN \E committed \in BOOLEAN :
               IF ~committed \/ \E s \in cases : s \in screening_images \/ diagnoses[s] # NoRow
               THEN /\ response' = Response("delete_patient", pid, clock', 500, NoRow)
                    /\ UNCHANGED <<db, audit_logs>>
               ELSE /\ patients' = [patients EXCEPT ![pid] = NoRow]
                    /\ screenings' = [s \in Screenings |->
                                         IF s \in cases THEN NoRow ELSE screenings[s]]
                    /\ samples' = [m \in Samples |->
                                      IF m \in mids THEN NoRow ELSE samples[m]]
                    /\ ai_results' = [i \in DOMAIN ai_results |->
                                         IF i \in cascade_ai_results(mids) THEN NoRow
                                         ELSE ai_results[i]]
                    /\ annotations' = cascade_annotations(mids)
                    /\ audit_logs' = Append(audit_logs,
                          AuditLog("patient.delete", current_user, "patient", pid, "info"))
                    /\ response' = Response("delete_patient", pid, clock', 204, NoRow)
                    /\ UNCHANGED <<screening_images, diagnoses>>
    /\ UNCHANGED req

\* PatientService.delete_patient: get_patient_by_id (which logs patient.view),
\* is_active = False and its commit, then the patient.delete entry.
PatientService_delete_patient(user, pid) ==
    /\ Arrive
    /\ IF patients[pid] = NoRow
       THEN /\ response' = Response("PatientService.delete_patient", pid, clock', 404, NoRow)
            /\ UNCHANGED <<patients, audit_logs>>
       ELSE \E viewed, committed \in BOOLEAN :
            IF user # NULL /\ ~viewed
            THEN /\ response' = Response("PatientService.delete_patient", pid, clock',
                                         500, NoRow)
                 /\ UNCHANGED <<patients, audit_logs>>
            ELSE /\ patients' = [patients EXCEPT ![pid].is_active = FALSE]
                 /\ audit_logs' =
                       IF user = NULL THEN audit_logs
                       ELSE LET view == Append(audit_logs,
                                   AuditLog("patient.view", user, "patient", pid, "info"))
                            IN IF committed
                               THEN Append(view,
                                   AuditLog("patient.delete", user, "patient", pid, "info"))
                               ELSE view
                 /\ response' = Response("PatientService.delete_patient", pid, clock',
                                         Logged(user, committed, 200), patients'[pid])
    /\ UNCHANGED <<screenings, screening_images, diagnoses, samples, ai_results,
                   annotations, req>>

\* ---------------------------------------------------------- inference
DIAGNOSIS_CATEGORIES ==
    <<"nilm", "asc_us", "asc_h", "lsil", "hsil", "scc", "agc", "adenocarcinoma",
      "unsatisfactory">>

\* The scores from category i on, with `remaining` left to give: each category
\* but the last two draws from 0 .. 0.8 * remaining, the last but one takes what
\* remains, and "unsatisfactory" gets 0.
RECURSIVE scores_from(_, _)
scores_from(i, remaining) ==
    IF i = Len(DIAGNOSIS_CATEGORIES) THEN {<<0>>}
    ELSE IF i = Len(DIAGNOSIS_CATEGORIES) - 1
    THEN {<<remaining>> \o rest : rest \in scores_from(i + 1, 0)}
    ELSE UNION {{<<score>> \o rest : rest \in scores_from(i + 1, remaining - score)} :
                  score \in 0..((remaining * 4) \div 5)}

\* max(scores, key=scores.get): the first category, in the order the scores
\* were inserted, whose score no other exceeds.
primary(scores) ==
    LET first == CHOOSE i \in DOMAIN scores :
                    /\ \A j \in DOMAIN scores : scores[j] <= scores[i]
                    /\ \A j \in 1..(i - 1) : scores[j] < scores[i]
    IN DIAGNOSIS_CATEGORIES[first]

\* AIResultService._simulate_ai_inference: the scores drawn and the primary
\* prediction taken from them.
simulate_ai_inference ==
    /\ \E scores \in scores_from(1, Units) :
          response' = Response("_simulate_ai_inference", NULL, clock, 200,
                [confidence_scores |-> scores,
                 primary_prediction |-> primary(scores),
                 primary_confidence |->
                    scores[CHOOSE i \in DOMAIN scores :
                               DIAGNOSIS_CATEGORIES[i] = primary(scores)]])
    /\ UNCHANGED <<db, audit_logs, clock, req>>

\* ------------------------------------------------------- AuditService
\* What log_action is called with here: user, action, resource type,
\* resource id and severity.
LoggedActions ==
    {<<current_user, "annotation.sign_off", "annotation", "a1", "critical">>,
     <<NULL, "patient.view", "patient", "p1", "info">>}

\* AuditService.log_action: the INSERT of one entry and its commit.
AuditService_log_action(user, action, resource_type, resource_id, severity) ==
    /\ Arrive
    /\ \E committed \in BOOLEAN :
          /\ audit_logs' = AuditLog_log_action(
                AuditLog(action, user, resource_type, resource_id, severity), committed)
          /\ response' = Response("log_action", NULL, clock',
                                  IF committed THEN 200 ELSE 500,
                                  [id |-> Len(audit_logs')])
    /\ UNCHANGED <<db, req>>

\* The filters of a query: NULL (NoTime for the dates) is a filter not supplied.
NoFilter ==
    [action |-> NULL, resource_type |-> NULL, resource_id |-> NULL, user_id |-> NULL,
     severity |-> NULL, start_date |-> NoTime, end_date |-> NoTime]

\* The queries asked here: no filter, each filter alone, and all together.
Filters ==
    {NoFilter,
     [NoFilter EXCEPT !.action = "annotation.sign_off"],
     [NoFilter EXCEPT !.resource_type = "annotation"],
     [NoFilter EXCEPT !.resource_id = "a1"],
     [NoFilter EXCEPT !.user_id = current_user],
     [NoFilter EXCEPT !.severity = "critical"],
     [NoFilter EXCEPT !.start_date = 1],
     [NoFilter EXCEPT !.end_date = 1],
     [action |-> "annotation.sign_off", resource_type |-> "annotation",
      resource_id |-> "a1", user_id |-> current_user, severity |-> "critical",
      start_date |-> 1, end_date |-> 2]}

\* get_logs: the ids of the entries that pass every filter supplied
\* (resource_id is a string column: ids compare as strings).
filter(q) ==
    {i \in DOMAIN audit_logs :
        LET log == audit_logs[i] IN
        /\ q.action # NULL => log.action = q.action
        /\ q.resource_type # NULL => log.resource_type = q.resource_type
        /\ q.resource_id # NULL => ToString(log.resource_id) = ToString(q.resource_id)
        /\ q.user_id # NULL => log.user_id = q.user_id
        /\ q.severity # NULL => log.severity = q.severity
        /\ q.start_date # NoTime => log.timestamp >= q.start_date
        /\ q.end_date # NoTime => log.timestamp <= q.end_date}

\* The skip and limit values asked here.
Skips == {0, 1, 2}
Limits == {1, 2}

\* order_by(AuditLog.timestamp.desc()): every order of these entries with no
\* later timestamp after an earlier one; the order of entries with equal
\* timestamps is the database's choice.
RECURSIVE order_by_timestamp_desc(_)
order_by_timestamp_desc(ids) ==
    IF ids = {} THEN {<< >>}
    ELSE UNION {{<<i>> \o rest : rest \in order_by_timestamp_desc(ids \ {i})} :
                  i \in {j \in ids : \A k \in ids :
                                        audit_logs[j].timestamp >= audit_logs[k].timestamp}}

\* .offset(skip).limit(limit)
offset_limit(rows, skip, limit) ==
    SubSeq(rows, skip + 1, IF skip + limit < Len(rows) THEN skip + limit ELSE Len(rows))

\* AuditService.get_logs: the page of ids and the total.
get_logs(q, skip, limit) ==
    /\ Arrive
    /\ LET query == filter(q)
           total == Cardinality(query)
       IN \E logs \in {offset_limit(rows, skip, limit) :
                            rows \in order_by_timestamp_desc(query)} :
             response' = Response("get_logs", NULL, clock', 200,
                   [query |-> q, skip |-> skip, limit |-> limit,
                    logs |-> logs, total |-> total])
    /\ UNCHANGED <<db, audit_logs, req>>

\* A reader of the whole log, page by page: the entries there were when it
\* began, the pages it has been given so far, and where the next page starts.
Reader(at, limit, existed, seen, skip, done) ==
    [op |-> "paging", at |-> at, limit |-> limit, existed |-> existed,
     seen |-> seen, skip |-> skip, done |-> done]

\* One get_logs call of reader w for the page at skip; the reader is done
\* when the page is short or the total is reached.
fetch_page(w, at, existed, seen, skip, limit) ==
    LET query == filter(NoFilter)
        total == Cardinality(query)
    IN \E logs \in {offset_limit(rows, skip, limit) :
                         rows \in order_by_timestamp_desc(query)} :
          /\ req' = [req EXCEPT ![w] =
                Reader(at, limit, existed, seen \o logs, skip + limit,
                       Len(logs) < limit \/ skip + limit >= total)]
          /\ response' = Response("get_logs", NULL, clock', 200,
                [query |-> NoFilter, skip |-> skip, limit |-> limit,
                 logs |-> logs, total |-> total])

\* The reader's first call: skip = 0.
fetch_first_page(w, limit) ==
    /\ req[w] = Idle
    /\ Arrive
    /\ fetch_page(w, clock', DOMAIN audit_logs, << >>, 0, limit)
    /\ UNCHANGED <<db, audit_logs>>

\* The reader's following calls: skip = limit, 2*limit, ...
fetch_next_page(w) ==
    /\ req[w].op = "paging"
    /\ ~req[w].done
    /\ Arrive
    /\ fetch_page(w, req[w].at, req[w].existed, req[w].seen, req[w].skip, req[w].limit)
    /\ UNCHANGED <<db, audit_logs>>

\* ------------------------------------------------------ GET /audit
\* AuditLog.action.ilike("%pattern%") on the actions and patterns there are
\* here: the action contains the pattern, letter case ignored.
ilike(action, pattern) ==
    CASE pattern = "SIGN" -> action \in {"annotation.sign_off"}
      [] pattern = "create" -> action \in {"screening.create", "sample.create",
                                           "ai_result.create"}
      [] OTHER -> action = pattern

\* The window of the route in clock ticks.
Days == {1, 2}

\* list_audit_logs: the window of the last `days` is always applied;
\* AuditLog has no attribute entity_type or entity_id, so the entity_type
\* filter and the building of an item both raise AttributeError.
list_audit_logs(user_id, action, entity_type, days, limit, offset) ==
    /\ Arrive
    /\ LET start_date == clock' - days
           query == {i \in DOMAIN audit_logs :
                       /\ audit_logs[i].timestamp >= start_date
                       /\ user_id # NULL => audit_logs[i].user_id = user_id
                       /\ action # NULL => ilike(audit_logs[i].action, action)}
           total == Cardinality(query)
       IN \E logs \in {offset_limit(rows, offset, limit) :
                            rows \in order_by_timestamp_desc(query)} :
             response' = Response("list_audit_logs", NULL, clock',
                   IF entity_type # NULL \/ logs # << >> THEN 500 ELSE 200,
                   [query |-> [NoFilter EXCEPT !.user_id = user_id, !.action = action,
                                               !.resource_type = entity_type,
                                               !.start_date = start_date],
                    skip |-> offset, limit |-> limit, logs |-> logs, total |-> total])
    /\ UNCHANGED <<db, audit_logs, req>>

\* ------------------------------------------------------------ database
\* reset_db(): drop_all and create_all leave every table empty, the audit log
\* among them.  Requests in flight keep the objects they loaded.
reset_db ==
    /\ patients' = [p \in Patients |-> NoRow]
    /\ screenings' = [s \in Screenings |-> NoRow]
    /\ screening_images' = {}
    /\ diagnoses' = [s \in Screenings |-> NoRow]
    /\ samples' = [m \in Samples |-> NoRow]
    /\ ai_results' = <<>>
    /\ annotations' = <<>>
    /\ audit_logs' = <<>>
    /\ response' = Response("reset_db", NULL, clock, 200, NoRow)
    /\ UNCHANGED <<clock, req>>

\* ------------------------------------------------------ roles and users
\* DEFAULT_ROLES: role name -> permissions (resource -> actions granted).
DEFAULT_ROLES ==
    [admin |->
        [users |-> {"*"}, patients |-> {"*"}, samples |-> {"*"}, diagnoses |-> {"*"},
         annotations |-> {"*"}, audit |-> {"*"}, settings |-> {"*"}],
     pathologist |->
        [patients |-> {"read"}, samples |-> {"read", "write"},
         diagnoses |-> {"read", "write", "approve"},
         annotations |-> {"read", "write", "sign_off"}, audit |-> {"read"}],
     cytotechnologist |->
        [patients |-> {"read"}, samples |-> {"read", "write"},
         diagnoses |-> {"read", "write"}, annotations |-> {"read", "write"},
         audit |-> {"read"}],
     physician |->
        [patients |-> {"read", "write"}, samples |-> {"read", "write"},
         diagnoses |-> {"read"}, annotations |-> {"read"}, audit |-> {"read"}],
     it_admin |->
        [users |-> {"read"}, settings |-> {"read", "write"}, integrations |-> {"*"},
         audit |-> {"read"}]]

\* UserRole, the legacy role string of a User.
UserRole == {"admin", "pathologist", "cytotechnologist", "physician", "it_admin"}

\* A variant that reads the action list only; C16 must not hold of it.
Role_has_permission_listed(permissions, resource, action) ==
    resource \in DOMAIN permissions /\ action \in permissions[resource]

\* Role.has_permission(resource, action) of a Role with these permissions.
Role_has_permission(permissions, resource, action) ==
    LET resource_perms == IF resource \in DOMAIN permissions
                          THEN permissions[resource] ELSE {}
    IN  action \in resource_perms \/ "*" \in resource_perms

\* User.has_permission(resource, action): through the Role when the user has
\* one (role_ref names it), else the legacy role string.
User_has_permission(user, resource, action) ==
    IF user.role_ref # NULL
    THEN Role_has_permission(DEFAULT_ROLES[user.role_ref], resource, action)
    ELSE user.role = "admin"

\* The users table: the clinician of the requests above, and a physician.
physician == "physician"
users ==
    [clinician |-> [role |-> "pathologist", role_ref |-> "pathologist"],
     physician |-> [role |-> "physician", role_ref |-> "physician"]]

\* Resource types and actions a check can name: those of DEFAULT_ROLES, and
\* one resource type and one action that no role lists.
Resources ==
    {"users", "patients", "samples", "diagnoses", "annotations", "audit", "settings",
     "integrations", "reports"}
Actions == {"read", "write", "approve", "sign_off", "delete"}

\* A call of User.has_permission on a user with this legacy role string and
\* this Role (or none); the answer is what the caller gets back.
has_permission(role, role_ref, resource, action) ==
    /\ response' = Response("has_permission", NULL, clock, 200,
          [role |-> role, role_ref |-> role_ref, resource |-> resource,
           action |-> action,
           allowed |-> User_has_permission([role |-> role, role_ref |-> role_ref],
                                           resource, action)])
    /\ UNCHANGED <<db, audit_logs, clock, req>>

\* ------------------------------------------------------------------ Next
\* Intake of a screening, its edits and its images.
NextScreening ==
    \/ \E pid \in Patients : create_screening(pid)
    \/ \E sid \in Screenings, status \in ScreeningStatus \cup {NULL} :
          update_screening(sid, status)
    \/ \E sid \in Screenings : upload_image(sid)

\* Analysis and review of a screening: the requests that write a Diagnosis.
NextDiagnosis ==
    \/ \E w \in Workers, sid \in Screenings, prediction \in Predictions :
          run_ai_analysis_begin(w, sid, prediction)
    \/ \E w \in Workers : run_ai_analysis_commit(w)
    \/ \E w \in Workers, sid \in Screenings, cd \in Predictions :
          submit_clinician_review_begin(w, sid, cd)
    \/ \E w \in Workers : submit_clinician_review_commit(w)
    \/ \E w \in Workers, user \in {current_user, NULL}, sid \in Screenings,
          prediction \in Predictions :
          AIResultService_run_analysis_begin(w, user, sid, NULL, prediction)
    \/ \E w \in Workers : AIResultService_run_analysis_commit(w)
    \/ \E user \in {current_user, NULL}, sid \in Screenings, cd \in Predictions :
          review_diagnosis(user, sid, cd)

\* Samples and their AI results.
NextSample ==
    \/ \E pid \in Patients : create_sample(pid)
    \/ \E w \in Workers, user \in {current_user, NULL}, mid \in Samples \cup {NULL},
          prediction \in Predictions :
          AIResultService_run_analysis_begin(w, user, NULL, mid, prediction)
    \/ \E w \in Workers : AIResultService_run_analysis_commit(w)

\* Clinician annotations of results.
NextAnnotation ==
    \/ \E user \in {current_user, NULL}, result_id \in ResultIds :
          create_annotation(user, result_id)
    \/ \E w \in Workers, user \in {current_user, NULL}, id \in AnnotationIds :
          sign_off_annotation_begin(w, user, id)
    \/ \E w \in Workers : sign_off_annotation_commit(w)
    \/ \E w \in Workers, id \in AnnotationIds, field \in AnnotationUpdate :
          update_annotation_begin(w, id, field)
    \/ \E w \in Workers : update_annotation_commit(w)

\* The screening episode.
NextCase == NextScreening \/ NextDiagnosis

\* Sign-off requests of the physician (get_current_user admits every user).
NextPhysician ==
    \E w \in Workers, id \in AnnotationIds : sign_off_annotation_begin(w, physician, id)

\* Maintenance of the database.
NextMaintenance == reset_db

Next == NextCase \/ NextSample \/ NextAnnotation \/ NextPhysician \/ NextMaintenance

Spec == Init /\ [][Next]_vars

\* The same system with only the requests of one part arriving.
SpecCase == Init /\ [][NextCase]_vars
SpecDiagnosis == Init /\ [][NextDiagnosis]_vars
SpecAnnotation == Init /\ [][NextAnnotation]_vars
SpecSignOff == Init /\ [][NextAnnotation \/ NextPhysician]_vars

\* The permission check on its own, over every user, resource type and action.
NextPermission ==
    \E role \in UserRole, role_ref \in DOMAIN DEFAULT_ROLES \cup {NULL},
       resource \in Resources, action \in Actions :
          has_permission(role, role_ref, resource, action)

SpecPermission == Init /\ [][NextPermission]_vars

\* The audit log on its own: entries written through AuditService, and queries.
NextAudit ==
    \/ \E a \in LoggedActions :
          AuditService_log_action(a[1], a[2], a[3], a[4], a[5])
    \/ \E q \in Filters, skip \in Skips, limit \in Limits :
          get_logs(q, skip, limit)

SpecAudit == Init /\ [][NextAudit]_vars

\* Samples, their results and annotations, and the deletion of samples and
\* patients.
NextDeletion ==
    \/ \E mid \in Samples : delete_sample(mid)
    \/ \E pid \in Patients : delete_patient(pid)
    \/ \E user \in {current_user, NULL}, pid \in Patients :
          PatientService_delete_patient(user, pid)

SpecDeletion == Init /\ [][NextDeletion \/ NextSample \/ NextAnnotation]_vars

\* Intake of screenings while patients and samples are deleted.
SpecIntake == Init /\ [][NextScreening \/ NextDeletion]_vars

\* Analysis and re-analysis of screenings and samples by the clinician, and
\* the review of a Diagnosis.
NextResults ==
    \/ \E w \in Workers, sid \in Screenings, prediction \in Predictions :
          run_ai_analysis_begin(w, sid, prediction)
    \/ \E w \in Workers : run_ai_analysis_commit(w)
    \/ \E w \in Workers, sid \in Screenings, cd \in Predictions :
          submit_clinician_review_begin(w, sid, cd)
    \/ \E w \in Workers : submit_clinician_review_commit(w)
    \/ \E w \in Workers, sid \in Screenings, prediction \in Predictions :
          AIResultService_run_analysis_begin(w, current_user, sid, NULL, prediction)
    \/ \E w \in Workers, mid \in Samples, prediction \in Predictions :
          AIResultService_run_analysis_begin(w, current_user, NULL, mid, prediction)
    \/ \E w \in Workers : AIResultService_run_analysis_commit(w)

SpecResults == Init /\ [][NextResults]_vars

\* Two screenings side by side: intake, status updates, analysis (of samples
\* as well), review and sign-off by the clinician.
NextCases ==
    \/ \E pid \in Patients : create_screening(pid)
    \/ \E sid \in Screenings, status \in {UNDER_REVIEW, NULL} :
          update_screening(sid, status)
    \/ \E w \in Workers, sid \in Screenings :
          AIResultService_run_analysis_begin(w, current_user, sid, NULL, "hsil")
    \/ \E w \in Workers, mid \in Samples \cup {NULL} :
          AIResultService_run_analysis_begin(w, current_user, NULL, mid, "hsil")
    \/ \E w \in Workers : AIResultService_run_analysis_commit(w)
    \/ \E sid \in Screenings : review_diagnosis(current_user, sid, "hsil")
    \/ \E result_id \in ResultIds : create_annotation(current_user, result_id)
    \/ \E w \in Workers, id \in AnnotationIds :
          sign_off_annotation_begin(w, current_user, id)
    \/ \E w \in Workers : sign_off_annotation_commit(w)

SpecCases == Init /\ [][NextCases]_vars

\* The inference on its own.
NextInference == simulate_ai_inference

SpecInference == Init /\ [][NextInference]_vars

\* Readers paging through the audit log while entries are written.
NextAuditPaging ==
    \/ \E a \in LoggedActions :
          AuditService_log_action(a[1], a[2], a[3], a[4], a[5])
    \/ \E w \in Workers, limit \in Limits : fetch_first_page(w, limit)
    \/ \E w \in Workers : fetch_next_page(w)

SpecAuditPaging == Init /\ [][NextAuditPaging]_vars

\* The audit log as the HTTP API reads it.
NextAuditRoute ==
    \/ \E a \in LoggedActions :
          AuditService_log_action(a[1], a[2], a[3], a[4], a[5])
    \/ \E user_id \in {NULL, current_user}, action \in {NULL, "SIGN", "create"},
          entity_type \in {NULL, "annotation"}, days \in Days,
          limit \in Limits, offset \in Skips :
          list_audit_logs(user_id, action, entity_type, days, limit, offset)

SpecAuditRoute == Init /\ [][NextAuditRoute]_vars

\* The annotation requests served one at a time: a request arrives only when
\* no other is between its query and its commit.
NextAnnotationSequential ==
    NextAnnotation /\ (clock' # clock => \A w \in Workers : req[w] = Idle)

SpecAnnotationSequential == Init /\ [][NextAnnotationSequential]_vars

\* ================================================================ claims
\* C1: a Screening is Completed only if at least one signed-off Annotation
\* references an AI result (Diagnosis) of that Screening.
C1_CompletedOnlyAfterSignOff ==
    \A s \in Screenings :
        (screenings[s] # NoRow /\ screenings[s].status = COMPLETED) =>
            \E a \in 1..Len(annotations) :
                /\ annotations[a].signed_off
                /\ annotations[a].result_id = DiagnosisRef(s)

\* C2: a Diagnosis that carries a final diagnosis or a finalization time carries
\* the reviewer and the review date of a clinician review, and the commit of an
\* AI analysis leaves the final diagnosis and its time as they were.
C2_Finalized(diagnosis) ==
    diagnosis.final_diagnosis # NULL \/ diagnosis.finalized_at # NoTime

C2_Reviewed(diagnosis) ==
    diagnosis.reviewer_id # NULL /\ diagnosis.review_date # NoTime

C2_FinalOnlyByReview ==
    [][/\ \A s \in Screenings :
            (diagnoses'[s] # NoRow /\ C2_Finalized(diagnoses'[s]))
                => C2_Reviewed(diagnoses'[s])
       /\ \A w \in Workers :
            (req[w].op \in {"run_ai_analysis", "run_analysis"} /\ req'[w] = Idle) =>
                \A s \in Screenings :
                    diagnoses'[s] # NoRow =>
                        /\ diagnoses[s] = NoRow => ~C2_Finalized(diagnoses'[s])
                        /\ diagnoses[s] # NoRow =>
                              /\ diagnoses'[s].final_diagnosis = diagnoses[s].final_diagnosis
                              /\ diagnoses'[s].finalized_at = diagnoses[s].finalized_at
      ]_vars

\* A reviewed and finalized Diagnosis that has its AI prediction as well.
C2_Witness ==
    \E s \in Screenings :
        /\ diagnoses[s] # NoRow
        /\ diagnoses[s].ai_prediction # NULL
        /\ C2_Finalized(diagnoses[s])
        /\ C2_Reviewed(diagnoses[s])
        /\ response.op = "submit_clinician_review"
        /\ response.code = 200

\* C3: a mutation and its audit entry are one unit: no state holds a signed-off
\* Annotation without the annotation.sign_off entry that records it.
C3_MutationHasAuditEntry ==
    \A a \in 1..Len(annotations) :
        annotations[a].signed_off =>
            \E i \in DOMAIN audit_logs :
                /\ audit_logs[i].action = "annotation.sign_off"
                /\ audit_logs[i].resource_id = a

\* C4: every successful operation that changes stored state adds exactly one
\* entry to the audit ledger, whether or not a user is attached.
C4_OneEntryPerMutation ==
    [][(db' # db /\ response'.code \in {200, 201}) =>
          /\ Len(audit_logs') = Len(audit_logs) + 1
          /\ SubSeq(audit_logs', 1, Len(audit_logs)) = audit_logs
      ]_vars

\* C5: a sign-off request for an Annotation that is signed off already returns
\* at once with that record, and changes nothing: it never goes on to a write.
C5_SignOffIdempotent ==
    [][\A id \in 1..Len(annotations) :
          annotations[id].signed_off =>
              /\ \A w \in Workers :
                    ~(/\ req[w] = Idle
                      /\ req'[w] # Idle
                      /\ req'[w].op = "sign_off_annotation"
                      /\ req'[w].id = id)
              /\ (/\ clock' = clock + 1
                  /\ req' = req
                  /\ response'.op = "sign_off_annotation"
                  /\ response'.id = id)
                     => /\ response'.code = 200
                        /\ response'.body = annotations[id]
                        /\ annotations' = annotations
                        /\ audit_logs' = audit_logs
      ]_vars

\* The response to a sign-off request that arrived after the Annotation was
\* signed off (a request that does sign stamps its own arrival time).
C5_Witness ==
    /\ response.op = "sign_off_annotation"
    /\ response.code = 200
    /\ response.body.signed_off
    /\ response.body.signed_off_at < response.at
    /\ annotations[response.id] = response.body

\* C6: with the sign-off requests served one after another, the ledger holds at
\* most one annotation.sign_off entry for each Annotation id.
C6_SignOffEntries(id) ==
    {i \in DOMAIN audit_logs :
        audit_logs[i].action = "annotation.sign_off" /\ audit_logs[i].resource_id = id}

C6_AtMostOneSignOffEntry ==
    \A id \in 1..Len(annotations) : Cardinality(C6_SignOffEntries(id)) <= 1

\* A repeated sign-off request has been answered and the entry is still one.
C6_Witness ==
    /\ response.op = "sign_off_annotation"
    /\ response.code = 200
    /\ response.body.signed_off_at < response.at
    /\ Cardinality(C6_SignOffEntries(response.id)) = 1

\* C7: an update request for a signed-off Annotation is refused, whatever field
\* it names, and leaves the record as it was: it never goes on to a write.
C7_UpdateRefusedWhenSignedOff ==
    [][\A id \in 1..Len(annotations) :
          annotations[id].signed_off =>
              /\ \A w \in Workers :
                    ~(/\ req[w] = Idle
                      /\ req'[w] # Idle
                      /\ req'[w].op = "update_annotation"
                      /\ req'[w].id = id)
              /\ (/\ clock' = clock + 1
                  /\ req' = req
                  /\ response'.op = "update_annotation"
                  /\ response'.id = id)
                     => /\ response'.code = 400
                        /\ annotations' = annotations
      ]_vars

\* An update request for a signed-off Annotation has been refused.
C7_Witness ==
    /\ response.op = "update_annotation"
    /\ response.code = 400
    /\ annotations[response.id].signed_off
    /\ \A w \in Workers : req[w] = Idle

\* C8: once an Annotation is signed off, no step changes any of its fields,
\* however update and sign-off requests interleave.
C8_SignedOffNeverChanges ==
    [][\A id \in 1..Len(annotations) :
          annotations[id].signed_off => annotations'[id] = annotations[id]
      ]_vars

\* C9: every change of a Screening's status is a step of
\* Pending -> AIAnalyzed -> UnderReview -> Completed, or a cancellation of a
\* Screening that is Pending, AIAnalyzed or UnderReview.
C9_Transitions ==
    {<<PENDING, AI_ANALYZED>>, <<AI_ANALYZED, UNDER_REVIEW>>,
     <<UNDER_REVIEW, COMPLETED>>, <<PENDING, CANCELLED>>,
     <<AI_ANALYZED, CANCELLED>>, <<UNDER_REVIEW, CANCELLED>>}

C9_OnlyAllowedTransitions ==
    [][\A s \in Screenings :
          (/\ screenings[s] # NoRow
           /\ screenings'[s].status # screenings[s].status)
              => <<screenings[s].status, screenings'[s].status>> \in C9_Transitions
      ]_vars

\* C10: an analysis request that finds its Screening Completed fails: the
\* Screening stays as it is and no Diagnosis is created or changed.
C10_Found(r) ==
    IF r.op = "run_ai_analysis" THEN r.screening
    ELSE IF r.op = "run_analysis" /\ r.branch = "screening" THEN r.loaded
    ELSE NoRow

C10_NoAnalysisOfCompleted ==
    [][\A w \in Workers :
          (/\ C10_Found(req[w]) # NoRow
           /\ C10_Found(req[w]).status = COMPLETED
           /\ req'[w] = Idle)
              => /\ screenings' = screenings
                 /\ diagnoses' = diagnoses
                 /\ response'.code >= 400
      ]_vars

\* C11: an analysis creates a result only for a Screening or Sample that it
\* found Pending or analysed and that has an image; any other analysis request
\* fails, creates no result and leaves the status of its owner as it was.
C11_Permitted(r) ==
    IF r.op = "run_ai_analysis"
    THEN r.screening.status \in {PENDING, AI_ANALYZED}
            /\ r.screening_id \in screening_images
    ELSE IF r.branch = "screening"
    THEN r.loaded.status \in {PENDING, AI_ANALYZED} /\ r.id \in screening_images
    ELSE r.loaded.status \in {"pending", "analyzed"} /\ r.loaded.image_path # NULL

C11_AnalysisOnlyWhenPermitted ==
    [][\A w \in Workers :
          (/\ req[w].op \in {"run_ai_analysis", "run_analysis"}
           /\ req'[w] = Idle
           /\ ~C11_Permitted(req[w]))
              => /\ diagnoses' = diagnoses
                 /\ ai_results' = ai_results
                 /\ screenings' = screenings
                 /\ samples' = samples
                 /\ response'.code >= 400
      ]_vars

\* C12: a successful analysis leaves the Screening ai_analyzed, and an analysis
\* request for a Screening that is ai_analyzed, has an image and has no
\* Annotation on its result is not refused: it is neither answered with an
\* error at once nor ends in an error with no result written.
C12_Reanalysable(s) ==
    /\ screenings[s] # NoRow
    /\ screenings[s].status = AI_ANALYZED
    /\ s \in screening_images
    /\ \A a \in 1..Len(annotations) : annotations[a].result_id # DiagnosisRef(s)

C12_ReanalysisSucceeds ==
    [][\A s \in Screenings :
          /\ \A w \in Workers :
                (/\ C10_Found(req[w]) # NoRow
                 /\ req'[w] = Idle
                 /\ response'.id = s
                 /\ response'.code = 200)
                    => screenings'[s].status = AI_ANALYZED
          /\ C12_Reanalysable(s) =>
                /\ ~(/\ clock' = clock + 1
                      /\ req' = req
                      /\ response'.op \in {"run_ai_analysis", "run_analysis"}
                      /\ response'.id = s
                      /\ response'.code >= 400)
                /\ \A w \in Workers :
                      ~(/\ C10_Found(req[w]) # NoRow
                        /\ req'[w] = Idle
                        /\ response'.id = s
                        /\ response'.code >= 400
                        /\ diagnoses' = diagnoses)
      ]_vars

\* C13: of two analysis requests that read the same Screening, the one that
\* commits second finds its read stale: it writes nothing and is answered with
\* the conflict error (a client error, not an escaped exception).
C13_Target(r) == IF r.op = "run_ai_analysis" THEN r.screening_id ELSE r.id

C13_StaleAnalysisIsConflict ==
    [][\A w \in Workers :
          (/\ C10_Found(req[w]) # NoRow
           /\ req'[w] = Idle
           /\ C10_Found(req[w]) # screenings[C13_Target(req[w])])
              => /\ diagnoses' = diagnoses
                 /\ screenings' = screenings
                 /\ response'.code \in 400..499
      ]_vars

\* What does hold of that race: the request that commits second inserts no
\* second Diagnosis and changes nothing (its INSERT fails on the unique
\* screening_id), whatever it is answered with.
C13_StaleInsertWritesNothing ==
    [][\A w \in Workers :
          (/\ C10_Found(req[w]) # NoRow
           /\ req'[w] = Idle
           /\ diagnoses[C13_Target(req[w])] # NoRow
           /\ (req[w].op = "run_ai_analysis" => req[w].existing = NoRow))
              => /\ diagnoses' = diagnoses
                 /\ screenings' = screenings
                 /\ response'.code = 500
      ]_vars

\* C14: of two sign-off requests that both read the Annotation unsigned, only
\* one applies: the one that commits second neither writes signed_off_at again
\* nor adds a second annotation.sign_off entry.
C14_ConcurrentSignOffOnce ==
    [][\A w \in Workers :
          (/\ req[w].op = "sign_off_annotation"
           /\ req'[w] = Idle
           /\ annotations[req[w].id].signed_off)
              => /\ annotations' = annotations
                 /\ audit_logs' = audit_logs
      ]_vars

\* C15: an Annotation becomes signed off only by the request of a user whose
\* role grants sign_off (or "*") on annotations, and only when the AIResult it
\* references exists.
C15_ResultExists(annotation) ==
    /\ annotation.result_id.kind = "ai_result"
    /\ annotation.result_id.index \in 1..Len(ai_results)

C15_SignOffOnlyWithPermission ==
    [][\A w \in Workers :
          (/\ req[w].op = "sign_off_annotation"
           /\ req'[w] = Idle
           /\ annotations'[req[w].id].signed_off)
              => /\ req[w].user # NULL
                 /\ User_has_permission(users[req[w].user], "annotations", "sign_off")
                 /\ C15_ResultExists(annotations[req[w].id])
      ]_vars

\* C16: for a user with a Role, the permission check answers true exactly when
\* the Role's action list for the resource type holds the action or "*"; a
\* resource type the Role does not list gives false; the answer is a boolean.
C16_PermissionIffGranted ==
    response.op = "has_permission" =>
        LET q == response.body IN
        q.role_ref # NULL =>
            LET permissions == DEFAULT_ROLES[q.role_ref] IN
            /\ response.code = 200
            /\ q.allowed \in BOOLEAN
            /\ q.resource \notin DOMAIN permissions => ~q.allowed
            /\ q.resource \in DOMAIN permissions =>
                  (q.allowed <=> (q.action \in permissions[q.resource]
                                     \/ "*" \in permissions[q.resource]))

\* A check that is granted through "*" alone.
C16_Witness ==
    /\ response.op = "has_permission"
    /\ response.body.role_ref = "admin"
    /\ response.body.resource = "annotations"
    /\ response.body.action = "sign_off"
    /\ response.body.allowed

\* C17: the answer of the permission check depends only on the permission data
\* of the user's Role: every user with the same Role, or with none, gets the
\* answer this user got.
C17_AnswerFromRoleDataOnly ==
    response.op = "has_permission" =>
        LET q == response.body IN
        \A role \in UserRole :
            User_has_permission([role |-> role, role_ref |-> q.role_ref],
                                q.resource, q.action) = q.allowed

\* C18: the audit log is append-only: every step leaves the entries there are
\* in place and unchanged, and at most adds entries after them.
C18_AppendOnly ==
    [][/\ Len(audit_logs') >= Len(audit_logs)
       /\ \A i \in 1..Len(audit_logs) : audit_logs'[i] = audit_logs[i]
      ]_vars

\* An entry passes a filter when the filter is not supplied or the entry has
\* the value asked for (for the time range: lies in it).
C19_Satisfies(log, q) ==
    /\ q.action # NULL => log.action = q.action
    /\ q.resource_type # NULL => log.resource_type = q.resource_type
    /\ q.resource_id # NULL => ToString(log.resource_id) = ToString(q.resource_id)
    /\ q.user_id # NULL => log.user_id = q.user_id
    /\ q.severity # NULL => log.severity = q.severity
    /\ q.start_date # NoTime => log.timestamp >= q.start_date
    /\ q.end_date # NoTime => log.timestamp <= q.end_date

\* The answer b to a query over the entries of audit_logs is exact: total
\* counts the entries that pass every supplied filter, and logs is positions
\* skip+1 .. skip+limit of an order of them by timestamp descending.
C19_Exact(b) ==
    LET matching == {i \in DOMAIN audit_logs : C19_Satisfies(audit_logs[i], b.query)}
        ts(i) == audit_logs[i].timestamp
        rest == IF b.total > b.skip THEN b.total - b.skip ELSE 0
    IN /\ b.total = Cardinality(matching)
       /\ Len(b.logs) = IF b.limit < rest THEN b.limit ELSE rest
       /\ \A n \in DOMAIN b.logs :
             /\ b.logs[n] \in matching
             /\ \A m \in DOMAIN b.logs :
                   m < n => b.logs[m] # b.logs[n] /\ ts(b.logs[m]) >= ts(b.logs[n])
             /\ Cardinality({i \in matching : ts(i) > ts(b.logs[n])}) <= b.skip + n - 1
             /\ Cardinality({i \in matching : ts(i) >= ts(b.logs[n])}) >= b.skip + n

\* C19 (AuditService.get_logs alone): every query through the service is
\* answered with exactly the matching entries, newest first, the page asked
\* for, and the total of all matching entries.
C19_GetLogsExact ==
    [][(response'.op = "get_logs" /\ clock' # clock) => C19_Exact(response'.body)]_vars

\* A service query with every filter supplied, answered with the second of two
\* matching entries.
C19_GetLogsWitness ==
    /\ response.op = "get_logs"
    /\ response.body.query.severity = "critical"
    /\ response.body.query.end_date = 2
    /\ response.body.skip = 1
    /\ response.body.total = 2
    /\ Len(response.body.logs) = 1

\* C19: every audit query, through GET /audit or through the service, is
\* answered with exactly the entries that pass every supplied filter, ordered
\* by timestamp descending, at most limit of them from skip on, and with the
\* total of all matching entries.
C19_QueryReturnsMatchingEntries ==
    [][(response'.op \in {"get_logs", "list_audit_logs"} /\ clock' # clock) =>
          /\ response'.code = 200
          /\ C19_Exact(response'.body)
      ]_vars

\* C20: a reader that fetches successive pages while entries are appended is
\* never given an entry twice, and once it is done it has been given every
\* entry that existed when it began.
C20_PagingSeesEachEntryOnce ==
    \A w \in Workers :
        req[w].op = "paging" =>
            LET seen == req[w].seen IN
            /\ \A m, n \in DOMAIN seen : m # n => seen[m] # seen[n]
            /\ req[w].done => \A i \in req[w].existed : \E n \in DOMAIN seen : seen[n] = i

\* The clinical severity of a category, least severe first: no finding of
\* use, negative, then the squamous and glandular findings up to carcinoma.
C21_Severity ==
    [unsatisfactory |-> 0, nilm |-> 1, asc_us |-> 2, lsil |-> 3, asc_h |-> 4,
     agc |-> 5, hsil |-> 6, scc |-> 7, adenocarcinoma |-> 8]

\* C21: the primary label of an inference has maximum confidence, and of the
\* labels that tie for the maximum it is the most severe.
C21_PrimaryIsMostSevereMaximum ==
    response.op = "_simulate_ai_inference" =>
        LET scores == response.body.confidence_scores
            chosen == response.body.primary_prediction
        IN \A i \in DOMAIN scores :
              /\ scores[i] <= response.body.primary_confidence
              /\ scores[i] = response.body.primary_confidence =>
                    C21_Severity[DIAGNOSIS_CATEGORIES[i]] <= C21_Severity[chosen]

\* The ledger holds an entry of this action for this resource.
C22_Entry(log, actions, resource_id) ==
    \E i \in DOMAIN log : log[i].action \in actions /\ log[i].resource_id = resource_id

\* C22: end to end, a review submitted for the Diagnosis of an analysed Case
\* leaves the Case under review, and the sign-off of that review leaves it
\* completed, with the analysis, the review and a critical sign-off in the ledger.
C22_EndToEndOrdering ==
    [][\A id \in DOMAIN annotations' :
          LET a == annotations'[id]
              s == a.result_id.screening_id
          IN (a.result_id.kind = "diagnosis" /\ screenings[s] # NoRow
                /\ screenings'[s] # NoRow) =>
                /\ (id \notin DOMAIN annotations /\ screenings[s].status = AI_ANALYZED)
                      => screenings'[s].status = UNDER_REVIEW
                /\ (id \in DOMAIN annotations /\ a.signed_off
                       /\ ~annotations[id].signed_off
                       /\ screenings[s].status \in {AI_ANALYZED, UNDER_REVIEW})
                      => /\ screenings'[s].status = COMPLETED
                         /\ C22_Entry(audit_logs',
                               {"diagnosis.ai_analysis", "diagnosis.ai_analyze"}, s)
                         /\ C22_Entry(audit_logs', {"annotation.create"}, id)
                         /\ \E i \in DOMAIN audit_logs' :
                               /\ audit_logs'[i].action = "annotation.sign_off"
                               /\ audit_logs'[i].resource_id = id
                               /\ audit_logs'[i].severity = "critical"
      ]_vars

\* The audit log refers to this resource.
C23_Referenced(resource_type, resource_id) ==
    \E i \in DOMAIN audit_logs :
        /\ audit_logs[i].resource_type = resource_type
        /\ audit_logs[i].resource_id = resource_id

\* C23: no step removes the row of a Screening, a Sample, an AI result or a
\* signed-off Annotation that an audit entry refers to.
C23_NoDeleteOfReferenced ==
    [][/\ \A s \in Screenings :
            (screenings[s] # NoRow /\ C23_Referenced("screening", s))
                => screenings'[s] # NoRow
       /\ \A m \in Samples :
            (samples[m] # NoRow /\ C23_Referenced("sample", m)) => samples'[m] # NoRow
       /\ \A i \in DOMAIN ai_results :
            (ai_results[i] # NoRow /\ C23_Referenced("ai_result", i))
                => (i \in DOMAIN ai_results' /\ ai_results'[i] # NoRow)
       /\ \A a \in DOMAIN annotations :
            (annotations[a] # NoRow /\ annotations[a].signed_off
               /\ C23_Referenced("annotation", a))
                => (a \in DOMAIN annotations' /\ annotations'[a] # NoRow)
      ]_vars

\* C24: a Screening row appears only for an existing patient who has given
\* consent, and it starts pending; a creation request answered 404 or 400
\* leaves the screenings and the audit log as they were.
C24_ConsentGatedIntake ==
    [][/\ \A s \in Screenings :
            (screenings[s] = NoRow /\ screenings'[s] # NoRow) =>
                LET patient == patients[screenings'[s].patient_id] IN
                /\ patient # NoRow
                /\ patient.consent_given
                /\ screenings'[s].status = PENDING
       /\ (response'.op = "create_screening" /\ clock' # clock
             /\ response'.code \in {400, 404}) =>
                /\ screenings' = screenings
                /\ audit_logs' = audit_logs
       /\ (response'.op = "create_screening" /\ clock' # clock
             /\ (patients[response'.id] = NoRow \/ ~patients[response'.id].consent_given))
                => response'.code \in {400, 404}
      ]_vars

\* A second Screening was created for the consenting patient, and the request
\* for the patient without consent has just been refused.
C24_Witness ==
    /\ response.op = "create_screening"
    /\ response.code = 400
    /\ response.id = "p2"
    /\ screenings["s2"] # NoRow
    /\ screenings["s2"].patient_id = "p1"

\* C25: no Annotation is created for an AI result that does not exist or for
\* the result of a Case that is completed, and a review that names one is
\* refused.
C25_ReviewRejected ==
    [][\A id \in DOMAIN annotations' :
          (id \notin DOMAIN annotations) =>
              LET result_id == annotations'[id].result_id IN
              /\ result_id.kind # "missing"
              /\ result_id.kind = "ai_result" =>
                    (result_id.index \in DOMAIN ai_results
                       /\ ai_results[result_id.index] # NoRow)
              /\ result_id.kind = "diagnosis" =>
                    /\ diagnoses[result_id.screening_id] # NoRow
                    /\ screenings[result_id.screening_id] # NoRow
                    /\ screenings[result_id.screening_id].status # COMPLETED
      ]_vars

\* C26: every step leaves an AI result that is stored before and after it as
\* it is: the rows of ai_results, and the AI prediction and analysis date of a
\* Diagnosis.
C26_AIResultImmutable ==
    [][/\ \A i \in DOMAIN ai_results :
            (ai_results[i] # NoRow /\ i \in DOMAIN ai_results' /\ ai_results'[i] # NoRow)
                => ai_results'[i] = ai_results[i]
       /\ \A s \in Screenings :
            (diagnoses[s] # NoRow /\ diagnoses[s].ai_prediction # NULL
               /\ diagnoses'[s] # NoRow) =>
                /\ diagnoses'[s].ai_prediction = diagnoses[s].ai_prediction
                /\ diagnoses'[s].ai_analysis_date = diagnoses[s].ai_analysis_date
      ]_vars

\* A sample analysed a second time, with both of its AI results stored, and an
\* analysed Diagnosis that has been reviewed since.
C26_Witness ==
    /\ Len(ai_results) >= 2
    /\ ai_results[1].sample_id = ai_results[2].sample_id
    /\ \E s \in Screenings :
          /\ diagnoses[s] # NoRow
          /\ diagnoses[s].ai_prediction # NULL
          /\ diagnoses[s].clinician_diagnosis # NULL

\* What there is of a Case: its status, its Diagnosis and the Annotations of it.
C27_Case(s) ==
    <<screenings[s], diagnoses[s],
      {<<a, annotations[a]>> : a \in {b \in DOMAIN annotations :
            annotations[b] # NoRow /\ annotations[b].result_id = DiagnosisRef(s)}}>>

\* The step is of an operation addressed to Case s: the commit of a request
\* in flight for it, or a request for it that is served in one step.
C27_Addressed(s) ==
    \/ screenings[s] = NoRow
    \/ \E w \in Workers :
          /\ req[w] # Idle
          /\ req'[w] = Idle
          /\ \/ req[w].op = "run_analysis" /\ req[w].id = s
             \/ req[w].op = "run_ai_analysis" /\ req[w].screening_id = s
             \/ req[w].op = "submit_clinician_review" /\ req[w].diagnosis_id = s
             \/ /\ req[w].op = "sign_off_annotation"
                /\ Found(req[w].id)
                /\ annotations[req[w].id].result_id = DiagnosisRef(s)
    \/ /\ clock' # clock
       /\ response'.op \in {"update_screening", "review_diagnosis"}
       /\ response'.id = s
    \/ /\ Len(annotations') > Len(annotations)
       /\ annotations'[Len(annotations')].result_id = DiagnosisRef(s)

\* C27: a step changes the status, the Diagnosis or the Annotations of a Case
\* only when it is of an operation addressed to that Case.
C27_CasesIndependent ==
    [][\A s \in Screenings : C27_Case(s)' # C27_Case(s) => C27_Addressed(s)]_vars

\* Two analyses in flight at once: the one of s2 arrived after the one of s1
\* and has committed, the one of s1 has not yet.
C27_Witness ==
    \E w \in Workers :
        /\ req[w].op = "run_analysis"
        /\ req[w].id = "s1"
        /\ response.op = "run_analysis"
        /\ response.id = "s2"
        /\ response.code = 200
        /\ response.at > req[w].at
        /\ screenings["s2"].status = AI_ANALYZED
        /\ screenings["s1"].status = PENDING

\* The response of the next state answers the request that arrives in this step.
C28_Answered(ops) ==
    clock' # clock /\ response'.op \in ops /\ response'.at = clock'

\* C28: an analysis, a review or a sign-off that names a row that does not
\* exist is answered not-found at once, and a request answered not-found
\* leaves every table and the audit log as they were.
C28_NotFoundChangesNothing ==
    [][/\ C28_Answered({"run_analysis", "review_diagnosis", "sign_off_annotation"})
            => /\ response'.code = 404 => (db' = db /\ audit_logs' = audit_logs)
               /\ response'.op = "run_analysis" => response'.code = 404
               /\ response'.op = "review_diagnosis" =>
                     (diagnoses[response'.id] = NoRow <=> response'.code = 404)
               /\ response'.op = "sign_off_annotation" =>
                     (~Found(response'.id) <=> response'.code = 404)
       /\ \A w \in Workers :
            (req[w] = Idle /\ req'[w] # Idle) =>
                /\ req'[w].op = "run_analysis" =>
                      IF req'[w].branch = "screening"
                      THEN screenings[req'[w].id] # NoRow
                      ELSE samples[req'[w].id] # NoRow
                /\ req'[w].op = "sign_off_annotation" => Found(req'[w].id)
      ]_vars

\* The review of a Diagnosis that does not exist has just been refused, while
\* the other screening has its Diagnosis.
C28_Witness ==
    /\ response.op = "review_diagnosis"
    /\ response.code = 404
    /\ response.at = clock
    /\ response.id = "s2"
    /\ diagnoses["s2"] = NoRow
    /\ diagnoses["s1"] # NoRow

\* C29: in every state an Annotation is signed off exactly when it has its
\* sign-off time.
C29_SignedOffIffTimeSet ==
    \A a \in DOMAIN annotations :
        annotations[a] # NoRow =>
            (annotations[a].signed_off <=> annotations[a].signed_off_at # NoTime)

\* An Annotation that was edited and then signed off.
C29_Witness ==
    \E a \in DOMAIN annotations :
        /\ annotations[a].signed_off
        /\ annotations[a].signed_off_at # NoTime
        /\ \E f \in AnnotationUpdate : annotations[a].fields[f] = V1

\* The Diagnosis has a clinician review.
C30_Reviewed(diagnosis) ==
    diagnosis.review_date # NoTime \/ diagnosis.clinician_diagnosis # NULL

\* The step is the commit of a review of the Diagnosis of s.
C30_ReviewOf(s) ==
    \/ \E w \in Workers :
          /\ req[w].op = "submit_clinician_review"
          /\ req'[w] = Idle
          /\ req[w].diagnosis_id = s
    \/ /\ clock' # clock
       /\ response'.op = "review_diagnosis"
       /\ response'.at = clock'
       /\ response'.id = s

\* C30: a Diagnosis that has a review keeps its reviewer, clinician diagnosis
\* and final diagnosis, and a further review of it is refused and leaves the
\* status of its Screening as it was.
C30_AtMostOneReview ==
    [][\A s \in Screenings :
          (diagnoses[s] # NoRow /\ C30_Reviewed(diagnoses[s]) /\ diagnoses'[s] # NoRow) =>
              /\ diagnoses'[s].reviewer_id = diagnoses[s].reviewer_id
              /\ diagnoses'[s].clinician_diagnosis = diagnoses[s].clinician_diagnosis
              /\ diagnoses'[s].final_diagnosis = diagnoses[s].final_diagnosis
              /\ C30_ReviewOf(s) =>
                    /\ response'.code >= 400
                    /\ screenings'[s] = screenings[s]
      ]_vars

====
